---- MODULE Spec2Model ----
(***************************************************************************)
(* RAG FAQ support bot: the RAGService of src/services/rag_service.py, the *)
(* HTTP handlers of src/routes/api.py and the startup hook of main.py,     *)
(* against a documents directory and a remote Qdrant collection.           *)
(*                                                                         *)
(* A file's content is identified by the number of chunks the text         *)
(* splitter cuts it into.  The vector index keeps, per filename, the       *)
(* sequence of batches inserted by add_documents calls that have not been  *)
(* deleted since; a batch is the chunk count of the content it came from.  *)
(* Every call to an external service (Qdrant, the embedding provider, the  *)
(* completion provider, a document loader, the filesystem) either returns  *)
(* or throws; the outcome is an input of the action that makes the call.   *)
(***************************************************************************)
EXTENDS Integers, Sequences, FiniteSets, TLC

VARIABLES
    pc,             \* "down" | "constructed" | "serving": the process
    vector_store,   \* RAGService.vector_store is set
    dir_exists,     \* settings.documents_dir exists
    disk,           \* documents directory: filename -> content, or NoFile
    placeholders,   \* further files in the directory that split into no chunk
    collection,     \* the Qdrant collection: [exists, dim, measured]
    payload_index,  \* the collection has the metadata.filename payload index
    index,          \* points of the collection: filename -> batches
    docs,           \* the chunks a similarity search returned
    uploading,      \* per server process: the upload request it is handling
    result          \* what the last operation did and returned

vars == <<pc, vector_store, dir_exists, disk, placeholders, collection,
          payload_index, index, docs, uploading, result>>

world == <<dir_exists, disk, placeholders, collection, payload_index, index>>

----------------------------------------------------------------------------
(* Bounds *)

MaxChunks == 2
MaxBatches == 2
MaxK == 1
MaxDocs == 3
Slack == 1

(* Program constants *)

FileLimit == 20
FallbackDim == 768
PreviewLen == 200
Dot == 46

\* the file the requests name; the other files of the directory are the
\* placeholders
Files == {"faq.txt"}
\* the filenames retrieved chunks can carry
RetrievedNames == {"faq.txt", "guide.pdf"}
NoFile == -1
Contents == 0..MaxChunks
InitialPlaceholders == {0, FileLimit - 1, FileLimit + 1}
\* the length of a models/text-embedding-004 vector
TestEmbeddingLens == {768}
Outcomes == {"ok", "throw"}
AddOutcomes == {"ok", "not_found", "other"}

\* the server processes that share the directory and the collection
Workers == {"w1", "w2"}
NotUploading == [at |-> "idle"]

NoCollection == [exists |-> FALSE, dim |-> 0, measured |-> 0]
Idle == [op |-> "none"]

----------------------------------------------------------------------------
(* Helpers *)

RECURSIVE SumSeq(_)
SumSeq(s) == IF s = <<>> THEN 0 ELSE Head(s) + SumSeq(Tail(s))

\* number of points of the collection that carry filename f
PointCount(f) == SumSeq(index[f])

OnDisk == {f \in Files : disk[f] # NoFile}

\* RAGService.get_document_list: the files physically in the directory
get_document_list == IF dir_exists THEN Cardinality(OnDisk) + placeholders ELSE 0

----------------------------------------------------------------------------
(* RAGService._initialize_vector_store *)

\* lines 56-83: the collection after the existence check and the create.
\* An exception anywhere inside the try (listing, create) is swallowed; a
\* failing test embedding falls back to the dimension of text-embedding-004.
InitCollection(list, embed, len, create) ==
    IF list = "throw" \/ collection.exists \/ create = "throw"
    THEN collection
    ELSE [exists   |-> TRUE,
          dim      |-> IF embed = "ok" THEN len ELSE FallbackDim,
          measured |-> IF embed = "ok" THEN len ELSE 0]

\* lines 85-93: create_payload_index; any exception is swallowed.  The call
\* throws when the collection does not exist.
InitPayloadIndex(coll, create_index) ==
    payload_index \/ (coll.exists /\ create_index = "ok")

\* RAGService.__init__ at import (line 345): the constructor of
\* QdrantVectorStore is the one call whose exception is not caught; the
\* process then does not come up, and what was created in Qdrant stays.
Construct(list, embed, len, create, create_index, ctor) ==
    /\ pc = "down"
    /\ LET coll == InitCollection(list, embed, len, create) IN
        /\ collection' = coll
        /\ payload_index' = InitPayloadIndex(coll, create_index)
    /\ vector_store' = (ctor = "ok")
    /\ pc' = IF ctor = "ok" THEN "constructed" ELSE "down"
    /\ result' = [op |-> "construct", status |-> IF ctor = "ok" THEN "ok" ELSE "error"]
    /\ UNCHANGED <<dir_exists, disk, placeholders, index, docs, uploading>>

----------------------------------------------------------------------------
(* RAGService.load_and_index_documents *)

\* the points add_documents inserts: one batch per loaded file with chunks
AddDocuments(idx, names, content) ==
    [f \in Files |-> IF f \in names /\ content[f] > 0
                     THEN Append(idx[f], content[f]) ELSE idx[f]]

DeleteMatchesNothing(idx, filename) == idx

\* qdrant_client.delete with the filter metadata.filename = filename
DeleteByFilename(idx, filename) == [idx EXCEPT ![filename] = <<>>]

RECURSIVE SumOver(_, _)
SumOver(names, content) ==
    IF names = {} THEN 0
    ELSE LET f == CHOOSE x \in names : TRUE
         IN content[f] + SumOver(names \ {f}, content)

\* The filenames whose versioning delete is issued: the single file of the
\* upload path; the directory path (file_path = None) issues none.
DeleteTargets(single, names) == IF single THEN names ELSE {}

\* What one call does.  names: the files loaded (the uploaded file, or all
\* files of the directory); content: their contents; o: the outcomes of the
\* external calls [load, del, add, embed, len, create, add2].
LoadAndIndex(single, names, content, o) ==
    LET chunk_count == SumOver(names, content)
        same == [raised |-> FALSE, chunk_count |-> chunk_count,
                 index |-> index, collection |-> collection,
                 delete |-> "none", delete_indexed |-> FALSE, inserted |-> {}]
    IN
    IF o.load = "throw" THEN [same EXCEPT !.raised = TRUE, !.chunk_count = 0]
    ELSE IF ~(vector_store /\ chunk_count > 0) THEN same
    ELSE
      LET targets == DeleteTargets(single, names)
          issued == targets # {}
          del_ok == issued /\ collection.exists /\ o.del = "ok"
          index1 == IF del_ok
                    THEN DeleteByFilename(index, CHOOSE f \in targets : TRUE)
                    ELSE index
          after_del == [same EXCEPT
                          !.index = index1,
                          !.delete = IF ~issued THEN "none"
                                     ELSE IF del_ok THEN "ok" ELSE "throw",
                          !.delete_indexed = issued /\ payload_index]
          added == [after_del EXCEPT
                          !.index = AddDocuments(index1, names, content),
                          !.inserted = {f \in names : content[f] > 0}]
          add == IF o.add = "ok" /\ ~collection.exists THEN "not_found" ELSE o.add
      IN
      IF add = "ok" THEN added
      ELSE IF add = "other" THEN [after_del EXCEPT !.raised = TRUE]
      ELSE \* the error text says the collection was not found: lines 153-174
        IF o.embed = "throw" THEN [after_del EXCEPT !.raised = TRUE]
        ELSE IF o.create = "throw"  \* neither "already exists" nor "duplicate"
             THEN [after_del EXCEPT !.raised = TRUE]
        ELSE \* created, or the "already exists" error swallowed
          LET coll == IF collection.exists THEN collection
                      ELSE [exists |-> TRUE, dim |-> o.len, measured |-> o.len]
          IN IF o.add2 = "ok"
             THEN [added EXCEPT !.collection = coll]
             ELSE [after_del EXCEPT !.collection = coll, !.raised = TRUE]

\* the outcomes of the calls of one invocation; a call that is not reached
\* has outcome "ok"
IndexOutcomes ==
    {o \in [load : Outcomes, del : Outcomes, add : AddOutcomes, embed : Outcomes,
            len : TestEmbeddingLens, create : Outcomes, add2 : Outcomes] :
        /\ o.load = "throw" => o.del = "ok" /\ o.add = "ok"
        /\ o.add # "not_found" => o.embed = "ok"
        /\ o.embed = "throw" => o.create = "ok"
        /\ o.create = "throw" \/ o.add # "not_found" => o.add2 = "ok"
        /\ o.add # "not_found" => o.create = "ok"}

WithinBounds(idx) == \A f \in Files : Len(idx[f]) <= MaxBatches

IndexResult(op, file, r) ==
    [op |-> op, file |-> file,
     status |-> IF r.raised THEN "error" ELSE "ok",
     chunks |-> r.chunk_count, delete |-> r.delete,
     delete_indexed |-> r.delete_indexed, inserted |-> r.inserted]

----------------------------------------------------------------------------
(* main.py lifespan: index the whole directory at startup *)

Lifespan(o) ==
    /\ pc = "constructed"
    /\ pc' = "serving"
    /\ IF dir_exists
       THEN LET r == LoadAndIndex(FALSE, OnDisk, disk, o) IN
            /\ WithinBounds(r.index)
            /\ index' = r.index
            /\ collection' = r.collection
            /\ result' = IndexResult("startup", "*", r)
       ELSE /\ UNCHANGED <<index, collection>>
            /\ result' = [op |-> "startup", file |-> "*", status |-> "skipped",
                          chunks |-> 0, delete |-> "none",
                          delete_indexed |-> FALSE, inserted |-> {}]
    /\ UNCHANGED <<vector_store, dir_exists, disk, placeholders, payload_index,
                   docs, uploading>>

\* the process is stopped and started again; Qdrant and the directory stay
Restart ==
    /\ pc # "down"
    /\ pc' = "down"
    /\ vector_store' = FALSE
    /\ result' = Idle
    /\ UNCHANGED <<world, docs, uploading>>

----------------------------------------------------------------------------
(* routes/api.py upload_file *)

LimitReachedOffByOne == get_document_list > FileLimit

\* line 40: the file limit check
LimitReached == get_document_list >= FileLimit

UploadWithRollback(f, c, o) ==
    /\ pc = "serving"
    /\ IF LimitReached
       THEN /\ result' = [op |-> "upload", file |-> f, status |-> "rejected",
                          chunks |-> 0, delete |-> "none",
                          delete_indexed |-> FALSE, inserted |-> {}]
            /\ UNCHANGED world
       ELSE LET written == [disk EXCEPT ![f] = c]
                r == LoadAndIndex(TRUE, {f}, written, o)
            IN
            /\ WithinBounds(r.index)
            /\ dir_exists' = TRUE
            /\ disk' = IF r.raised THEN disk ELSE written
            /\ index' = r.index
            /\ collection' = r.collection
            /\ result' = IndexResult("upload", f, r)
            /\ UNCHANGED <<placeholders, payload_index>>
    /\ UNCHANGED <<pc, vector_store, docs, uploading>>

\* lines 34-59: the limit check, the write of the file, then the indexing;
\* an exception of the indexing becomes a 500 and the file stays
Upload(f, c, o) ==
    /\ pc = "serving"
    /\ IF LimitReached
       THEN /\ result' = [op |-> "upload", file |-> f, status |-> "rejected",
                          chunks |-> 0, delete |-> "none",
                          delete_indexed |-> FALSE, inserted |-> {}]
            /\ UNCHANGED world
       ELSE LET written == [disk EXCEPT ![f] = c]
                r == LoadAndIndex(TRUE, {f}, written, o)
            IN
            /\ WithinBounds(r.index)
            /\ dir_exists' = TRUE
            /\ disk' = written
            /\ index' = r.index
            /\ collection' = r.collection
            /\ result' = IndexResult("upload", f, r)
            /\ UNCHANGED <<placeholders, payload_index>>
    /\ UNCHANGED <<pc, vector_store, docs, uploading>>

----------------------------------------------------------------------------
(* RAGService.delete_document and the DELETE endpoint *)

DeleteReturnsMissingFileFails(removal, delete) ==
    removal = "ok" /\ delete # "throw"

\* the return value: False from either except clause (lines 323, 327), True
\* otherwise (lines 320, 324); removal is "absent" when the file is not there
DeleteReturns(removal, delete) ==
    removal # "throw" /\ delete # "throw"

\* remove: the outcome of os.remove; del: the outcome of the filtered delete
DeleteDocument(f, remove, del) ==
    /\ pc = "serving"
    /\ LET present == dir_exists /\ disk[f] # NoFile
           remove_failed == present /\ remove = "throw"
           issued == ~remove_failed /\ vector_store
           del_ok == issued /\ collection.exists /\ del = "ok"
           removal == IF ~present THEN "absent" ELSE remove
           delete == IF ~issued THEN "none" ELSE IF del_ok THEN "ok" ELSE "throw"
           success == DeleteReturns(removal, delete)
       IN
       /\ disk' = IF present /\ ~remove_failed
                  THEN [disk EXCEPT ![f] = NoFile] ELSE disk
       /\ index' = IF del_ok THEN DeleteByFilename(index, f) ELSE index
       /\ result' = [op |-> "delete", file |-> f,
                     status |-> IF success THEN "ok" ELSE "error",
                     returned |-> success,
                     removal |-> removal, delete |-> delete,
                     points_before |-> PointCount(f),
                     delete_indexed |-> issued /\ payload_index]
    /\ UNCHANGED <<pc, vector_store, dir_exists, placeholders, collection,
                   payload_index, docs, uploading>>

----------------------------------------------------------------------------
(* RAGService.query *)

\* a text of n characters
Text(n) == [j \in 1..n |-> 97 + (j % 5)]

Ellipsis == <<Dot, Dot, Dot>>

PreviewCutsAtLimit(page_content) ==
    IF Len(page_content) >= PreviewLen
    THEN SubSeq(page_content, 1, PreviewLen) \o Ellipsis
    ELSE page_content

\* line 281: the preview of a chunk
Preview(page_content) ==
    IF Len(page_content) > PreviewLen
    THEN SubSeq(page_content, 1, PreviewLen) \o Ellipsis
    ELSE page_content

RECURSIVE ReferencesPerChunk(_, _)
ReferencesPerChunk(ds, seen_sources) ==
    IF ds = <<>> THEN <<>>
    ELSE LET doc == Head(ds)
         IN <<[id |-> doc.filename, filename |-> doc.filename,
               source |-> doc.source, page |-> doc.page,
               preview |-> Preview(doc.page_content)]>>
            \o ReferencesPerChunk(Tail(ds), seen_sources)

\* lines 264-283: one reference per filename, the first chunk met
RECURSIVE References(_, _)
References(ds, seen_sources) ==
    IF ds = <<>> THEN <<>>
    ELSE LET doc == Head(ds)
             ref_id == doc.filename
         IN IF ref_id \notin seen_sources
            THEN <<[id |-> ref_id, filename |-> doc.filename,
                    source |-> doc.source, page |-> doc.page,
                    preview |-> Preview(doc.page_content)]>>
                 \o References(Tail(ds), seen_sources \cup {ref_id})
            ELSE References(Tail(ds), seen_sources)

NoDocumentsIndexed ==
    [status |-> "ok", answer |-> "No documents have been indexed yet",
     references |-> <<>>, context_used |-> 0]

NoRelevantInformation ==
    [status |-> "ok", answer |-> "I couldn't find any relevant information",
     references |-> <<>>, context_used |-> 0]

Raised == [status |-> "error", answer |-> "", references |-> <<>>, context_used |-> 0]

\* lines 222-289: the response once the retriever has returned ds
Respond(ds, llm) ==
    IF ds = <<>> THEN NoRelevantInformation
    ELSE IF llm = "throw" THEN Raised
    ELSE [status |-> "ok", answer |-> "generated",
          references |-> References(ds, {}), context_used |-> Len(ds)]

\* the points of the collection, as the chunks the retriever returns them:
\* the last chunk of a file is short, the chunks before it are full
Points ==
    {[filename |-> f, batch |-> b, chunk |-> i] :
        f \in Files, b \in 1..MaxBatches, i \in 1..MaxChunks}

Stored == {p \in Points : p.batch <= Len(index[p.filename])
                          /\ p.chunk <= index[p.filename][p.batch]}

ChunkOf(p) ==
    [filename |-> p.filename, source |-> <<"src/documents", p.filename>>,
     page |-> 0,
     page_content |-> IF p.chunk < index[p.filename][p.batch]
                      THEN Text(PreviewLen + p.chunk) ELSE Text(p.chunk)]

Min(a, b) == IF a < b THEN a ELSE b

\* what a top-k similarity search can return: k stored points, in any order
Retrievals(k) ==
    LET n == Min(k, Cardinality(Stored))
        ranked == {s \in [1..n -> Stored] : \A i, j \in 1..n : s[i] = s[j] => i = j}
    IN {[i \in 1..n |-> ChunkOf(s[i])] : s \in ranked}

QueryOutcomeReraises(check, found) ==
    IF check = "ok" /\ ~collection.exists THEN "no_collection"
    ELSE IF found = "ok" THEN "retrieved" ELSE "raise"

\* lines 189-220: what query does before it composes an answer.  check: the
\* outcome of listing the collections; found: the outcome of the retriever.
QueryOutcome(check, found) ==
    IF check = "ok" /\ ~collection.exists THEN "no_collection"
    ELSE IF found = "not_found" THEN "no_collection"
    ELSE IF found = "other" THEN "raise"
    ELSE "retrieved"

QueryOutcomes ==
    {o \in [check : Outcomes, retrieval : AddOutcomes, llm : Outcomes] :
        o.retrieval # "ok" => o.llm = "ok"}

\* RAGService.query, lines 184-289
Query(k, o) ==
    /\ pc = "serving"
    /\ LET found == IF o.retrieval = "ok" /\ ~collection.exists
                    THEN "not_found" ELSE o.retrieval
           outcome == QueryOutcome(o.check, found)
           called == [op |-> "query", check |-> o.check,
                      retrieval |-> IF o.check = "ok" /\ ~collection.exists
                                    THEN "none" ELSE found]
       IN
       IF outcome = "no_collection"
       THEN result' = called @@ [response |-> NoDocumentsIndexed]
       ELSE IF outcome = "raise"
       THEN result' = called @@ [response |-> Raised]
       ELSE \E ds \in Retrievals(k) :
              result' = called @@ [response |-> Respond(ds, o.llm)]
    /\ UNCHANGED <<pc, vector_store, world, docs, uploading>>

----------------------------------------------------------------------------
(* The service against its directory and its collection *)

Init ==
    /\ pc = "down"
    /\ vector_store = FALSE
    /\ dir_exists \in BOOLEAN
    /\ disk \in [Files -> Contents \cup {NoFile}]
    /\ placeholders \in InitialPlaceholders
    /\ ~dir_exists => placeholders = 0 /\ OnDisk = {}
    /\ collection = NoCollection
    /\ payload_index = FALSE
    /\ index = [f \in Files |-> <<>>]
    /\ docs = <<>>
    /\ uploading = [w \in Workers |-> NotUploading]
    /\ result = Idle

Next ==
    \/ \E list, embed, create, create_index, ctor \in Outcomes :
         \E len \in TestEmbeddingLens :
           Construct(list, embed, len, create, create_index, ctor)
    \/ \E o \in IndexOutcomes : Lifespan(o)
    \/ Restart
    \/ \E f \in Files, c \in Contents, o \in IndexOutcomes : Upload(f, c, o)
    \/ \E f \in Files, remove, del \in Outcomes : DeleteDocument(f, remove, del)
    \/ \E k \in 1..MaxK, o \in QueryOutcomes : Query(k, o)

Spec == Init /\ [][Next]_vars

----------------------------------------------------------------------------
(* The reference list of query, on retrieved chunks of any length *)

TextLens == {0} \cup ((PreviewLen - Slack)..(PreviewLen + Slack))

SampleChunks ==
    {[filename |-> f, source |-> <<"src/documents", f>>, page |-> 0,
      page_content |-> Text(n)] : f \in RetrievedNames, n \in TextLens}

InitQuery ==
    /\ pc = "serving"
    /\ vector_store = TRUE
    /\ dir_exists = TRUE
    /\ disk = [f \in Files |-> NoFile]
    /\ placeholders = 0
    /\ collection = [exists |-> TRUE, dim |-> FallbackDim, measured |-> FallbackDim]
    /\ payload_index = TRUE
    /\ index = [f \in Files |-> <<>>]
    /\ docs \in UNION {[1..n -> SampleChunks] : n \in 0..MaxDocs}
    /\ uploading = [w \in Workers |-> NotUploading]
    /\ result = Idle

\* query from the retriever's return on: lines 222-289
Answer(llm) ==
    /\ result = Idle
    /\ result' = [op |-> "query", check |-> "ok", retrieval |-> "ok",
                  response |-> Respond(docs, llm)]
    /\ UNCHANGED <<pc, vector_store, world, docs, uploading>>

NextQuery == \E llm \in Outcomes : Answer(llm)

SpecQuery == InitQuery /\ [][NextQuery]_vars

----------------------------------------------------------------------------
(* Uploads of the same filename handled by two server processes at once.   *)
(* Inside one process the handlers never await, so they run one after the  *)
(* other; processes that share the directory and the collection do not.    *)
(* Each call upload_file makes on the directory or on Qdrant is one step.  *)

TheFile == CHOOSE f \in Files : TRUE

Done(w, status) == [uploading EXCEPT ![w].at = "done", ![w].status = status]

\* api.py lines 39-48: the limit check, then the file is written
Receive(w, c) ==
    /\ uploading[w].at = "idle"
    /\ IF LimitReached
       THEN /\ uploading' = [uploading EXCEPT ![w] =
                  [at |-> "done", status |-> "rejected", chunks |-> 0,
                   delete |-> "none", raced |-> FALSE]]
            /\ UNCHANGED <<dir_exists, disk>>
       ELSE /\ dir_exists' = TRUE
            /\ disk' = [disk EXCEPT ![TheFile] = c]
            /\ uploading' = [uploading EXCEPT ![w] =
                  [at |-> "written", status |-> "running", chunks |-> 0,
                   delete |-> "none", raced |-> FALSE]]
    /\ UNCHANGED <<pc, vector_store, placeholders, collection, payload_index,
                   index, docs, result>>

\* rag_service.py lines 104-127: the file is read back and split; with no
\* chunk the call returns at once
Load(w, load) ==
    /\ uploading[w].at = "written"
    /\ uploading' =
         IF load = "throw" THEN Done(w, "error")
         ELSE IF ~(vector_store /\ disk[TheFile] > 0)
         THEN [Done(w, "ok") EXCEPT ![w].chunks = disk[TheFile]]
         ELSE [uploading EXCEPT ![w].at = "loaded", ![w].chunks = disk[TheFile]]
    /\ UNCHANGED <<pc, vector_store, world, docs, result>>

\* lines 130-148: the filtered delete; its exception is only printed.  raced:
\* another process has deleted and not inserted yet.
Delete(w, del) ==
    /\ uploading[w].at = "loaded"
    /\ LET del_ok == collection.exists /\ del = "ok" IN
       /\ index' = IF del_ok THEN DeleteByFilename(index, TheFile) ELSE index
       /\ uploading' = [uploading EXCEPT
              ![w].at = "deleted",
              ![w].delete = IF del_ok THEN "ok" ELSE "throw",
              ![w].raced = \E v \in Workers \ {w} : uploading[v].at = "deleted"]
    /\ UNCHANGED <<pc, vector_store, dir_exists, disk, placeholders, collection,
                   payload_index, docs, result>>

\* lines 150-176: add_documents, and the fallback when the error says that
\* the collection was not found
Insert(w, o) ==
    /\ uploading[w].at = "deleted"
    /\ LET content == [f \in Files |-> uploading[w].chunks]
           added == AddDocuments(index, {TheFile}, content)
           add == IF o.add = "ok" /\ ~collection.exists THEN "not_found" ELSE o.add
           created == IF collection.exists THEN collection
                      ELSE [exists |-> TRUE, dim |-> o.len, measured |-> o.len]
       IN
       IF add = "ok"
       THEN /\ WithinBounds(added)
            /\ index' = added
            /\ uploading' = Done(w, "ok")
            /\ UNCHANGED collection
       ELSE IF add = "other" \/ o.embed = "throw" \/ o.create = "throw"
       THEN /\ uploading' = Done(w, "error")
            /\ UNCHANGED <<index, collection>>
       ELSE /\ collection' = created
            /\ IF o.add2 = "ok"
               THEN /\ WithinBounds(added)
                    /\ index' = added
                    /\ uploading' = Done(w, "ok")
               ELSE /\ uploading' = Done(w, "error")
                    /\ UNCHANGED index
    /\ UNCHANGED <<pc, vector_store, dir_exists, disk, placeholders,
                   payload_index, docs, result>>

InsertOutcomes == {o \in IndexOutcomes : o.load = "ok" /\ o.del = "ok"}

\* both processes are serving; the file, if there is one, is indexed once
InitConcurrent ==
    /\ pc = "serving"
    /\ vector_store = TRUE
    /\ dir_exists = TRUE
    /\ disk \in [Files -> Contents \cup {NoFile}]
    /\ placeholders = 0
    /\ collection = [exists |-> TRUE, dim |-> FallbackDim, measured |-> FallbackDim]
    /\ payload_index = TRUE
    /\ index = [f \in Files |-> IF disk[f] > 0 THEN <<disk[f]>> ELSE <<>>]
    /\ docs = <<>>
    /\ uploading = [w \in Workers |-> NotUploading]
    /\ result = Idle

NextConcurrent ==
    \/ \E w \in Workers, c \in Contents : Receive(w, c)
    \/ \E w \in Workers, load \in Outcomes : Load(w, load)
    \/ \E w \in Workers, del \in Outcomes : Delete(w, del)
    \/ \E w \in Workers, o \in InsertOutcomes : Insert(w, o)

SpecConcurrent == InitConcurrent /\ [][NextConcurrent]_vars

----------------------------------------------------------------------------
(* Properties *)

IndexingOps == {"startup", "upload"}

\* C1: an upload of a filename that is already indexed, once it has
\* succeeded and its filtered delete (if issued) was applied, leaves exactly
\* the new content's chunk count of points for that filename, zero chunks
\* included.
C1_ReuploadLeavesNewChunks ==
    [][\A f \in Files :
         (/\ result'.op = "upload" /\ result'.file = f
          /\ result'.status = "ok" /\ result'.delete # "throw"
          /\ PointCount(f) > 0)
         => PointCount(f)' = disk'[f]]_vars

\* C2: every indexing call, of one file or of the directory, whose deletes
\* were applied leaves for each filename it inserted points for only the
\* points of the version just indexed.
C2_InsertReplacesOldVersion ==
    [][\A f \in Files :
         (/\ result'.op \in IndexingOps
          /\ f \in result'.inserted /\ result'.delete # "throw")
         => index'[f] = <<disk'[f]>>]_vars

\* C3: an upload made while the directory holds 20 files or more is rejected
\* and changes neither the directory nor the collection.
C3_UploadAtLimitRejected ==
    [][(result'.op = "upload" /\ get_document_list >= FileLimit)
         => (result'.status = "rejected" /\ UNCHANGED world)]_vars

C3_Witness ==
    /\ result.op = "upload" /\ result.status = "rejected"
    /\ get_document_list = FileLimit
    /\ \E f \in Files : disk[f] # NoFile /\ PointCount(f) > 0

\* C4 as claimed: a query made while the collection does not exist never
\* raises and returns the fixed answer, whatever the existence check did.
C4_QueryWithoutCollectionNeverRaises ==
    (result.op = "query" /\ ~collection.exists)
        => result.response = NoDocumentsIndexed

\* C4: a query made while the collection does not exist returns the fixed
\* answer with no reference and context_used = 0, or raises; it raises only
\* when the existence check threw and the retriever then failed with an
\* error that does not say "not found".
C4_QueryWithoutCollection ==
    (result.op = "query" /\ ~collection.exists)
        => \/ result.response = NoDocumentsIndexed
           \/ /\ result.response = Raised
              /\ result.check = "throw" /\ result.retrieval = "other"

C4_Witness ==
    /\ result.op = "query" /\ ~collection.exists
    /\ result.check = "throw" /\ result.retrieval = "not_found"
    /\ result.response.answer # "" /\ result.response.references = <<>>
    /\ result.response.context_used = 0 /\ result.response.status = "ok"

\* the position in docs of the first chunk that carries filename
FirstOf(filename) ==
    CHOOSE i \in 1..Len(docs) :
        /\ docs[i].filename = filename
        /\ \A j \in 1..(i - 1) : docs[j].filename # filename

Answered == result.op = "query" /\ result.response.answer = "generated"

\* C5: the references of an answer hold one entry per filename of the
\* retrieved chunks, taken from the first chunk of that filename, in the
\* order of the first occurrences; context_used counts all retrieved chunks.
C5_ReferencesFirstPerFilename ==
    Answered =>
      LET refs == result.response.references IN
      /\ {refs[i].filename : i \in 1..Len(refs)}
           = {docs[i].filename : i \in 1..Len(docs)}
      /\ \A i, j \in 1..Len(refs) :
           i < j => FirstOf(refs[i].filename) < FirstOf(refs[j].filename)
      /\ \A i \in 1..Len(refs) :
           LET first == docs[FirstOf(refs[i].filename)] IN
           /\ refs[i].id = first.filename
           /\ refs[i].source = first.source /\ refs[i].page = first.page
           /\ \A n \in 1..Min(Len(first.page_content), PreviewLen) :
                refs[i].preview[n] = first.page_content[n]
           /\ Len(refs[i].preview) >= Min(Len(first.page_content), PreviewLen)
      /\ result.response.context_used = Len(docs)

C5_Witness ==
    /\ Answered /\ Len(docs) = 3
    /\ docs[1].filename = docs[3].filename /\ docs[2].filename # docs[1].filename
    /\ Len(docs[1].page_content) # Len(docs[3].page_content)
    /\ Len(result.response.references) = 2

\* C6: a delete_document that returns true leaves the file absent and no
\* point with its filename; repeated right after, it returns true again
\* (unless Qdrant throws) and changes neither the directory nor the collection.
C6_DeleteThenRepeat ==
    [][\A f \in Files :
         (result'.op = "delete" /\ result'.file = f) =>
           /\ result'.returned => (disk'[f] = NoFile /\ PointCount(f)' = 0)
           /\ (/\ result.op = "delete" /\ result.file = f /\ result.returned)
                => /\ UNCHANGED world
                   /\ result'.delete # "throw" => result'.returned]_vars

C6_Witness ==
    /\ result.op = "delete" /\ result.returned
    /\ result.removal = "ok" /\ result.points_before > 0
    /\ disk[result.file] = NoFile /\ PointCount(result.file) = 0

\* C7 as claimed: delete_document returns false exactly when the filtered
\* delete throws.
C7_FalseOnlyIfVectorDeleteThrows ==
    result.op = "delete" => (~result.returned <=> result.delete = "throw")

\* C7: delete_document returns false (and the endpoint answers 500) exactly
\* when removing the file from disk throws or the filtered delete throws; a
\* file that is absent from disk is tolerated.
C7_FalseIffRemoveOrVectorDeleteThrows ==
    result.op = "delete" =>
      /\ ~result.returned <=> (result.removal = "throw" \/ result.delete = "throw")
      /\ (result.status = "error") <=> ~result.returned
      /\ result.removal = "throw" => result.delete = "none"

C7_Witness ==
    /\ result.op = "delete" /\ result.removal = "absent"
    /\ result.delete = "ok" /\ result.returned /\ result.status = "ok"

PreviewMax == PreviewLen + Len(Ellipsis)

\* C8: the preview of every reference has at most 203 characters; it is the
\* chunk itself when the chunk has at most 200 characters, and otherwise the
\* first 200 characters of the chunk followed by the three-character marker.
C8_PreviewTruncation ==
    Answered =>
      \A i \in 1..Len(result.response.references) :
        LET ref == result.response.references[i]
            chunk == docs[FirstOf(ref.filename)].page_content
        IN /\ Len(ref.preview) <= PreviewMax
           /\ Len(chunk) <= PreviewLen => ref.preview = chunk
           /\ Len(chunk) > PreviewLen =>
                /\ Len(ref.preview) = PreviewMax
                /\ \A n \in 1..PreviewLen : ref.preview[n] = chunk[n]
                /\ \A n \in (PreviewLen + 1)..PreviewMax : ref.preview[n] = Dot

C8_Witness ==
    /\ Answered /\ Len(docs) = 2
    /\ Len(docs[1].page_content) = PreviewLen
    /\ Len(docs[2].page_content) = PreviewLen + 1
    /\ docs[1].filename # docs[2].filename
    /\ Len(result.response.references[1].preview) = PreviewLen
    /\ Len(result.response.references[2].preview) = PreviewMax

\* C9: a collection the service created has the dimension of a vector that
\* an embedding call made for the creation returned.
C9_DimensionFromEmbedding ==
    collection.exists =>
        (collection.measured > 0 /\ collection.dim = collection.measured)

\* C10: every delete-by-filename call is issued while the payload index on
\* metadata.filename exists.
C10_DeleteOnlyWithPayloadIndex ==
    (result.op \in {"upload", "delete"} /\ result.delete # "none")
        => result.delete_indexed

\* C12: an upload whose indexing fails answers with a server error, and the
\* file it wrote before indexing stays in the directory and in the document
\* list, while no point of the uploaded content has been inserted: the points
\* of the filename are those it had before, or none.
C12_FailedUploadKeepsFile ==
    [][\A f \in Files :
         (result'.op = "upload" /\ result'.file = f /\ result'.status = "error")
         => /\ dir_exists' /\ disk'[f] # NoFile
            /\ get_document_list' >= 1
            /\ disk[f] = NoFile =>
                 get_document_list' = (IF dir_exists THEN get_document_list ELSE 0) + 1
            /\ result'.inserted = {}
            /\ index'[f] \in {index[f], <<>>}]_vars

C12_Witness ==
    /\ result.op = "upload" /\ result.status = "error"
    /\ result.delete = "ok"
    /\ disk[result.file] > 0
    /\ get_document_list = 1
    /\ PointCount(result.file) = 0
    /\ collection.exists

\* the processes whose upload went through with chunks to index
Indexed == {w \in Workers : uploading[w].at = "done" /\ uploading[w].chunks > 0}

\* every process has answered 200 and every delete issued was applied
Finished ==
    \A w \in Workers :
        /\ uploading[w].at = "done" /\ uploading[w].status = "ok"
        /\ uploading[w].chunks > 0 => uploading[w].delete = "ok"

Raced == \E w \in Workers : uploading[w].raced

\* C11: two uploads of the same filename that both succeed leave the points
\* of both in the index exactly when they interleaved, the second delete
\* falling between the first delete and its insert; the filename then holds
\* the sum of both chunk counts.  Otherwise it holds one version only.
C11_MixedExactlyWhenInterleaved ==
    (Finished /\ Indexed # {}) =>
        /\ Raced <=> Len(index[TheFile]) = 2
        /\ Raced => (Indexed = Workers /\
                     PointCount(TheFile) = SumOver(Workers, [w \in Workers |-> uploading[w].chunks]))
        /\ ~Raced => \E w \in Indexed : index[TheFile] = <<uploading[w].chunks>>

C11_Witness ==
    /\ Finished /\ Raced
    /\ Len(index[TheFile]) = 2
    /\ \E v, w \in Workers : uploading[v].chunks < uploading[w].chunks
    /\ \A w \in Workers : PointCount(TheFile) # uploading[w].chunks
    /\ PointCount(TheFile) # disk[TheFile]

====
